---------------------------- MODULE Spec2Model ----------------------------
(***************************************************************************)
(* Model of the field-to-validation-schema compiler of the form generator: *)
(* generateZodSchema (src/lib/form-utils.ts) builds one zod schema per     *)
(* field descriptor and assembles them with z.object; the form component   *)
(* (src/components/dynamicForm.tsx) compiles the schema from its field     *)
(* list and validates the submission record against it.                    *)
(*                                                                         *)
(* A schema is modelled as the tree of zod nodes the code builds by method *)
(* chaining, and validation as zod 3's synchronous parse of that tree:     *)
(* every node returns a status (valid, dirty, aborted), a value and the    *)
(* issues it added.                                                        *)
(*                                                                         *)
(* The module also models the page component (src/app/page.tsx) with its  *)
(* calls of generateFormResponse (src/app/actions/jsonOutput.ts), the      *)
(* server action submitForm (src/app/actions/submitForm.ts) and the hook   *)
(* useFormGenerator (src/lib/form-utils.ts), each under a specification of *)
(* its own: PageSpec (PageLive with fairness), HandlerSpec, SubmitSpec and *)
(* HookSpec.  Every specification keeps the variables of the other         *)
(* components at rest.                                                     *)
(***************************************************************************)
EXTENDS Integers, Sequences, FiniteSets, TLC

VARIABLES
    fields,        \* the field descriptor list handed to the form component
    compiledFrom,  \* the list as the last compilation read it
    schema,        \* the aggregate validator compiled from it (NoSchema before)
    shown,         \* what the user entered in the widgets: position -> value
    record,        \* the submission record: field name -> candidate value
    result,        \* the outcome of validating the record (NoResult before)
    pc,            \* "fresh", "compiled", "editing" or "validated"
    \* the page component (src/app/page.tsx)
    prompt,        \* the text of the prompt input
    formFields,    \* the generated form (NoForm before the first one)
    isLoading,     \* the loading flag
    error,         \* the message of the alert (NoMessage when null)
    calls,         \* the calls of generateFormResponse awaited by the page
    \* the server action submitForm (src/app/actions/submitForm.ts)
    submitPc,      \* "delay", "calling", "settled" or "returned"
    data,          \* its argument
    response,      \* how its call of generateFormResponse settled
    returned,      \* how its own promise settled (NotReturned before)
    \* the hook useFormGenerator (src/lib/form-utils.ts)
    hookPrompt,    \* the prompt of the last render
    hookFields,    \* the state the hook returns
    effectPending  \* the effect of the last render has yet to run

formVars == <<fields, compiledFrom, schema, shown, record, result, pc>>
pageVars == <<prompt, formFields, isLoading, error, calls>>
submitVars == <<submitPc, data, response, returned>>
hookVars == <<hookPrompt, hookFields, effectPending>>

vars == <<formVars, pageVars, submitVars, hookVars>>

-----------------------------------------------------------------------------
(* JavaScript values.  A string is a sequence of one-character strings.    *)

Undefined == [t |-> "undefined"]
Null == [t |-> "null"]
Str(s) == [t |-> "string", s |-> s]
Num(n) == [t |-> "number", n |-> n]
Bool(b) == [t |-> "boolean", b |-> b]
Arr(items) == [t |-> "array", items |-> items]
\* A Date: its time value is day * 86400000 + ms milliseconds since the epoch.
MsPerDay == 24 * 60 * 60 * 1000
DateV(valid, day, ms) == [t |-> "date", valid |-> valid, day |-> day, ms |-> ms]
DateOfTime(n) == DateV(TRUE, n \div MsPerDay, n % MsPerDay)
InvalidDate == DateV(FALSE, 0, 0)
FileV(size) == [t |-> "file", size |-> size]

EmptyStr == Str(<<>>)

\* An optional numeric property of a descriptor (min, max, step).
NoNum == [has |-> FALSE, n |-> 0]
SomeNum(n) == [has |-> TRUE, n |-> n]

\* JavaScript's x || d for an optional number: undefined and 0 are falsy.
OrElse(x, d) == IF x.has /\ x.n # 0 THEN x.n ELSE d

\* String.prototype.repeat, of one character
Rep(c, k) == [i \in 1..k |-> c]

Upper == {"A", "B", "C", "D", "E", "F", "G", "H", "I", "J", "K", "L", "M",
          "N", "O", "P", "Q", "R", "S", "T", "U", "V", "W", "X", "Y", "Z"}
Lower == {"a", "b", "c", "d", "e", "f", "g", "h", "i", "j", "k", "l", "m",
          "n", "o", "p", "q", "r", "s", "t", "u", "v", "w", "x", "y", "z"}
Digit == {"0", "1", "2", "3", "4", "5", "6", "7", "8", "9"}
WhiteSpace == {" "}

\* String.prototype.trim
RECURSIVE TrimLeft(_)
TrimLeft(s) ==
    IF s # <<>> /\ Head(s) \in WhiteSpace THEN TrimLeft(Tail(s)) ELSE s

RECURSIVE TrimRight(_)
TrimRight(s) ==
    IF s # <<>> /\ s[Len(s)] \in WhiteSpace
    THEN TrimRight(SubSeq(s, 1, Len(s) - 1))
    ELSE s

Trim(s) == TrimRight(TrimLeft(s))

StartsWith(s, p) == Len(s) >= Len(p) /\ SubSeq(s, 1, Len(p)) = p

-----------------------------------------------------------------------------
(* The regular expressions of the rule table.                              *)

\* /[A-Z]/
HasUpper(s) == \E i \in 1..Len(s) : s[i] \in Upper
\* /[a-z]/
HasLower(s) == \E i \in 1..Len(s) : s[i] \in Lower
\* /[0-9]/
HasDigit(s) == \E i \in 1..Len(s) : s[i] \in Digit
\* /[^A-Za-z0-9]/
HasSpecial(s) == \E i \in 1..Len(s) : s[i] \notin (Upper \cup Lower \cup Digit)
\* /^\d+$/
AllDigits(s) == Len(s) >= 1 /\ \A i \in 1..Len(s) : s[i] \in Digit
\* /^\+?[1-9]\d{1,14}$/
PhoneBody(s) ==
    /\ Len(s) >= 2
    /\ Len(s) <= 15
    /\ s[1] \in (Digit \ {"0"})
    /\ \A i \in 2..Len(s) : s[i] \in Digit
PhonePattern(s) ==
    \/ PhoneBody(s)
    \/ (s # <<>> /\ Head(s) = "+" /\ PhoneBody(Tail(s)))

RegexTest(re, s) ==
    CASE re = "upper" -> HasUpper(s)
      [] re = "lower" -> HasLower(s)
      [] re = "digit" -> HasDigit(s)
      [] re = "special" -> HasSpecial(s)
      [] re = "digits" -> AllDigits(s)
      [] re = "phone" -> PhonePattern(s)

languages == {<<"e", "n">>, <<"f", "r">>, <<"d", "e">>, <<"e", "s">>,
              <<"p", "t">>, <<"r", "u">>, <<"j", "a">>, <<"k", "o">>,
              <<"z", "h">>}

-----------------------------------------------------------------------------
(* zod schema nodes, as the method chains of generateZodSchema build them. *)

\* string checks
SMin(v, msg) == [c |-> "min", v |-> v, msg |-> msg]
SMax(v, msg) == [c |-> "max", v |-> v, msg |-> msg]
SLength(v, msg) == [c |-> "length", v |-> v, msg |-> msg]
SRegex(re, msg) == [c |-> "regex", re |-> re, msg |-> msg]
SStartsWith(p, msg) == [c |-> "startsWith", p |-> p, msg |-> msg]
\* number checks (no message given: zod's default messages)
NMin(v) == [c |-> "min", v |-> v]
NMax(v) == [c |-> "max", v |-> v]
NStep(v) == [c |-> "multipleOf", v |-> v]
\* array checks
AMin(v, msg) == [c |-> "min", v |-> v, msg |-> msg]
AMax(v, msg) == [c |-> "max", v |-> v, msg |-> msg]

ZString(checks) == [k |-> "string", checks |-> checks]
ZNumber(checks) == [k |-> "number", checks |-> checks]
ZBoolean == [k |-> "boolean"]
ZCoerceDate == [k |-> "date"]
ZInstanceOfFile == [k |-> "instanceof"]
ZArray(element, checks) == [k |-> "array", element |-> element, checks |-> checks]
ZTuple(items) == [k |-> "tuple", items |-> items]
ZDefault(inner, value) == [k |-> "default", inner |-> inner, value |-> value]
ZOptional(inner) == [k |-> "optional", inner |-> inner]
ZRefine(inner, pred, msg) == [k |-> "refine", inner |-> inner, pred |-> pred, msg |-> msg]
ZTransform(inner, fn) == [k |-> "transform", inner |-> inner, fn |-> fn]
ZSuperRefine(inner, label) == [k |-> "superRefine", inner |-> inner, label |-> label]
ZObject(shape) == [k |-> "object", shape |-> shape]

-----------------------------------------------------------------------------
(* The variant rule table: the cases of the switch of generateZodSchema.   *)

\* case "Checkbox": case "Switch":
CheckboxSchema(field) == ZDefault(ZBoolean, Bool(field.checked))

\* case "Combobox":
ComboboxSchema ==
    ZRefine(ZString(<<SMin(1, "Please select a language")>>),
            "isLanguage", "Please select a valid language")

\* case "Date Picker": case "Datetime Picker": case "Smart Datetime Input":
DateSchema == ZCoerceDate

\* case "File Input":
FileInputSchema ==
    ZRefine(ZRefine(ZOptional(ZArray(ZInstanceOfFile, <<>>)),
                    "fileSizes", "Each file must be less than 4MB"),
            "fileCount", "Maximum 5 files allowed")

\* case "Input":
InputSchema ==
    ZTransform(ZString(<<SMin(1, "This field is required")>>), "trim")

\* (mutant: at least 6 characters instead of exactly 6)
InputOTPSchema_AtLeast6 ==
    ZString(<<SMin(6, "OTP must be exactly 6 digits"),
              SRegex("digits", "OTP must contain only numbers")>>)

\* case "Input OTP":
InputOTPSchema ==
    ZString(<<SLength(6, "OTP must be exactly 6 digits"),
              SRegex("digits", "OTP must contain only numbers")>>)

\* case "Location Input":
LocationInputSchema ==
    ZTuple(<<ZString(<<SMin(1, "Country is required")>>),
             ZOptional(ZString(<<>>))>>)

\* case "Multi Select":
MultiSelectSchema ==
    ZArray(ZString(<<>>),
           <<AMin(1, "Please select at least one option"),
             AMax(10, "Maximum 10 selections allowed")>>)

\* (mutant: the digit check is missing)
PasswordSchema_NoDigit ==
    ZString(<<SMin(8, "Password must be at least 8 characters"),
              SRegex("upper", "Password must contain at least one uppercase letter"),
              SRegex("lower", "Password must contain at least one lowercase letter"),
              SRegex("special", "Password must contain at least one special character")>>)

\* case "Password":
PasswordSchema ==
    ZString(<<SMin(8, "Password must be at least 8 characters"),
              SRegex("upper", "Password must contain at least one uppercase letter"),
              SRegex("lower", "Password must contain at least one lowercase letter"),
              SRegex("digit", "Password must contain at least one number"),
              SRegex("special", "Password must contain at least one special character")>>)

\* case "Phone":
PhoneSchema ==
    ZString(<<SMin(1, "Phone number is required"),
              SRegex("phone", "Please enter a valid phone number")>>)

\* case "Select":
SelectSchema == ZString(<<SMin(1, "Please select an option")>>)

\* case "Signature Input":
SignatureInputSchema ==
    ZString(<<SMin(1, "Signature is required"),
              SStartsWith(<<"d", "a", "t", "a", ":", "i", "m", "a", "g", "e", "/">>,
                          "Invalid signature format")>>)

\* case "Slider":
SliderSchema(field) ==
    ZNumber(<<NMin(OrElse(field.min, 0)),
              NMax(OrElse(field.max, 100)),
              NStep(OrElse(field.step, 1))>>)

\* (mutant: at most 19 tags)
TagsInputSchema_AtMost19 ==
    ZRefine(ZArray(ZString(<<>>),
                   <<AMin(1, "Please add at least one tag"),
                     AMax(19, "Maximum 20 tags allowed")>>),
            "tagLengths", "Each tag must be less than 50 characters")

\* case "Tags Input":
TagsInputSchema ==
    ZRefine(ZArray(ZString(<<>>),
                   <<AMin(1, "Please add at least one tag"),
                     AMax(20, "Maximum 20 tags allowed")>>),
            "tagLengths", "Each tag must be less than 50 characters")

\* case "Textarea":
TextareaSchema ==
    ZTransform(ZString(<<SMin(1, "This field is required"),
                         SMax(1000, "Maximum 1000 characters allowed")>>),
               "trim")

\* (mutant: the fallback is a boolean rule)
DefaultSchema_Boolean == ZBoolean

\* (mutant: the fallback demands a non-empty string)
DefaultSchema_NonEmpty == ZString(<<SMin(1, "This field is required")>>)

\* default:
DefaultSchema == ZString(<<>>)

\* The 18 variant tags of formFieldSchema.
Variants ==
    {"Checkbox", "Combobox", "Date Picker", "Datetime Picker", "File Input",
     "Input", "Input OTP", "Location Input", "Multi Select", "Password",
     "Phone", "Select", "Signature Input", "Slider", "Smart Datetime Input",
     "Switch", "Tags Input", "Textarea"}

\* switch (field.variant)
BaseSchema(field) ==
    CASE field.variant \in {"Checkbox", "Switch"} -> CheckboxSchema(field)
      [] field.variant = "Combobox" -> ComboboxSchema
      [] field.variant \in {"Date Picker", "Datetime Picker", "Smart Datetime Input"}
            -> DateSchema
      [] field.variant = "File Input" -> FileInputSchema
      [] field.variant = "Input" -> InputSchema
      [] field.variant = "Input OTP" -> InputOTPSchema
      [] field.variant = "Location Input" -> LocationInputSchema
      [] field.variant = "Multi Select" -> MultiSelectSchema
      [] field.variant = "Password" -> PasswordSchema
      [] field.variant = "Phone" -> PhoneSchema
      [] field.variant = "Select" -> SelectSchema
      [] field.variant = "Signature Input" -> SignatureInputSchema
      [] field.variant = "Slider" -> SliderSchema(field)
      [] field.variant = "Tags Input" -> TagsInputSchema
      [] field.variant = "Textarea" -> TextareaSchema
      [] OTHER -> DefaultSchema

\* (mutant: the emptiness check is added whether required or not)
ComposeRequired_Always(field, base) == ZSuperRefine(base, field.label)

\* if (field.required) superRefine(...) else optional()
ComposeRequired(field, base) ==
    IF field.required THEN ZSuperRefine(base, field.label) ELSE ZOptional(base)

FieldSchema(field) == ComposeRequired(field, BaseSchema(field))

\* (mutant: an entry already registered is kept)
RECURSIVE SchemaMap_FirstWins(_, _)
SchemaMap_FirstWins(fs, acc) ==
    IF fs = <<>> THEN acc
    ELSE SchemaMap_FirstWins(Tail(fs), acc @@ (Head(fs).name :> FieldSchema(Head(fs))))

\* fields.forEach(... schemaMap[field.name] = schema): a later descriptor
\* with the same name overwrites the earlier entry.
RECURSIVE SchemaMap(_, _)
SchemaMap(fs, acc) ==
    IF fs = <<>> THEN acc
    ELSE SchemaMap(Tail(fs), (Head(fs).name :> FieldSchema(Head(fs))) @@ acc)

\* (mutant: the loop stops one descriptor short)
generateZodSchema_DropsLast(fs) == ZObject(SchemaMap(SubSeq(fs, 1, Len(fs) - 1), <<>>))

\* (mutant: a compilation after the first finds the shared map consumed)
generateZodSchema_FirstCallOnly(fs) ==
    IF pc = "fresh" THEN ZObject(SchemaMap(fs, <<>>)) ELSE ZObject(<<>>)

generateZodSchema(fs) == ZObject(SchemaMap(fs, <<>>))

-----------------------------------------------------------------------------
(* zod's parse.  A parse returns its status, its value and the messages of *)
(* the issues it added, in order.  "aborted" is zod's INVALID: the effects *)
(* wrapped around an aborted parse do not run.                             *)

Valid(v) == [status |-> "valid", value |-> v, issues |-> <<>>]
Aborted(issues) == [status |-> "aborted", value |-> Undefined, issues |-> issues]
Checked(v, issues) ==
    [status |-> IF issues = <<>> THEN "valid" ELSE "dirty", value |-> v, issues |-> issues]

\* zod's default message for an invalid_type issue
InvalidType(expected, v) ==
    IF v.t = "undefined" THEN "Required"
    ELSE "Expected " \o expected \o ", received " \o v.t

StringCheckFails(check, s) ==
    CASE check.c = "min" -> Len(s) < check.v
      [] check.c = "max" -> Len(s) > check.v
      [] check.c = "length" -> Len(s) # check.v
      [] check.c = "regex" -> ~RegexTest(check.re, s)
      [] check.c = "startsWith" -> ~StartsWith(s, check.p)

RECURSIVE StringIssues(_, _)
StringIssues(checks, s) ==
    IF checks = <<>> THEN <<>>
    ELSE (IF StringCheckFails(Head(checks), s) THEN <<Head(checks).msg>> ELSE <<>>)
         \o StringIssues(Tail(checks), s)

\* ZodString._parse
ParseString(node, v) ==
    IF v.t # "string" THEN Aborted(<<InvalidType("string", v)>>)
    ELSE Checked(v, StringIssues(node.checks, v.s))

NumberCheckFails(check, n) ==
    CASE check.c = "min" -> n < check.v
      [] check.c = "max" -> n > check.v
      [] check.c = "multipleOf" -> (n % check.v) # 0

NumberMessage(check) ==
    CASE check.c = "min" -> "Number must be greater than or equal to " \o ToString(check.v)
      [] check.c = "max" -> "Number must be less than or equal to " \o ToString(check.v)
      [] check.c = "multipleOf" -> "Number must be a multiple of " \o ToString(check.v)

RECURSIVE NumberIssues(_, _)
NumberIssues(checks, n) ==
    IF checks = <<>> THEN <<>>
    ELSE (IF NumberCheckFails(Head(checks), n) THEN <<NumberMessage(Head(checks))>> ELSE <<>>)
         \o NumberIssues(Tail(checks), n)

\* ZodNumber._parse
ParseNumber(node, v) ==
    IF v.t # "number" THEN Aborted(<<InvalidType("number", v)>>)
    ELSE Checked(v, NumberIssues(node.checks, v.n))

\* ZodBoolean._parse
ParseBoolean(v) ==
    IF v.t # "boolean" THEN Aborted(<<InvalidType("boolean", v)>>) ELSE Valid(v)

DigitValue(c) ==
    CASE c = "0" -> 0 [] c = "1" -> 1 [] c = "2" -> 2 [] c = "3" -> 3 [] c = "4" -> 4
      [] c = "5" -> 5 [] c = "6" -> 6 [] c = "7" -> 7 [] c = "8" -> 8 [] c = "9" -> 9

LeapDaysBefore(y) == ((y - 1) \div 4) - ((y - 1) \div 100) + ((y - 1) \div 400)

\* Date.parse of the strings of the model: an ISO year "YYYY" is midnight UTC
\* of its first of January; a string with no digit is not a date.
DateParse(s) ==
    CASE Len(s) = 4 /\ AllDigits(s) ->
            LET y == 1000 * DigitValue(s[1]) + 100 * DigitValue(s[2])
                     + 10 * DigitValue(s[3]) + DigitValue(s[4])
            IN  DateV(TRUE, 365 * (y - 1970) + LeapDaysBefore(y) - LeapDaysBefore(1970), 0)
      [] ~HasDigit(s) -> InvalidDate

\* new Date(value)
NewDate(v) ==
    CASE v.t = "undefined" -> InvalidDate
      [] v.t = "null" -> DateOfTime(0)
      [] v.t = "boolean" -> DateOfTime(IF v.b THEN 1 ELSE 0)
      [] v.t = "number" -> DateOfTime(v.n)
      [] v.t = "string" -> DateParse(v.s)
      [] v.t = "date" -> v

\* ZodDate._parse with coerce
ParseDate(v) ==
    LET d == NewDate(v)
    IN  IF ~d.valid THEN Aborted(<<"Invalid date">>) ELSE Valid(d)

\* z.instanceof(File)
ParseInstanceOfFile(v) ==
    IF v.t # "file" THEN Aborted(<<"Input not instance of File">>) ELSE Valid(v)

ArrayCheckFails(check, n) ==
    CASE check.c = "min" -> n < check.v
      [] check.c = "max" -> n > check.v

RECURSIVE ArrayIssues(_, _)
ArrayIssues(checks, n) ==
    IF checks = <<>> THEN <<>>
    ELSE (IF ArrayCheckFails(Head(checks), n) THEN <<Head(checks).msg>> ELSE <<>>)
         \o ArrayIssues(Tail(checks), n)

\* ParseStatus.mergeArray over the parsed items
RECURSIVE MergeStatus(_, _)
MergeStatus(status, parsed) ==
    IF parsed = <<>> THEN status
    ELSE IF Head(parsed).status = "aborted" THEN "aborted"
    ELSE MergeStatus(IF Head(parsed).status = "dirty" THEN "dirty" ELSE status,
                     Tail(parsed))

RECURSIVE ConcatIssues(_)
ConcatIssues(parsed) ==
    IF parsed = <<>> THEN <<>> ELSE Head(parsed).issues \o ConcatIssues(Tail(parsed))

MergeArray(own, parsed) ==
    LET issues == own \o ConcatIssues(parsed)
        status == MergeStatus(IF own = <<>> THEN "valid" ELSE "dirty", parsed)
    IN  IF status = "aborted" THEN Aborted(issues)
        ELSE [status |-> status,
              value |-> Arr([i \in 1..Len(parsed) |-> parsed[i].value]),
              issues |-> issues]

\* (mutant: a file must be smaller than 4 MiB)
RefinePasses_StrictSize(pred, v) ==
    CASE pred = "isLanguage" -> v.s \in languages
      [] pred = "fileSizes" ->
            v.t = "undefined"
            \/ \A i \in 1..Len(v.items) : v.items[i].size < 4 * 1024 * 1024
      [] pred = "fileCount" -> v.t = "undefined" \/ Len(v.items) <= 5
      [] pred = "tagLengths" -> \A i \in 1..Len(v.items) : Len(v.items[i].s) <= 50

\* the predicates handed to .refine
RefinePasses(pred, v) ==
    CASE pred = "isLanguage" -> v.s \in languages
      [] pred = "fileSizes" ->
            v.t = "undefined"
            \/ \A i \in 1..Len(v.items) : v.items[i].size <= 4 * 1024 * 1024
      [] pred = "fileCount" -> v.t = "undefined" \/ Len(v.items) <= 5
      [] pred = "tagLengths" -> \A i \in 1..Len(v.items) : Len(v.items[i].s) <= 50

\* (mutant: the transform hands the string back as it is)
ApplyTransform_Identity(fn, v) == v

\* the function handed to .transform
ApplyTransform(fn, v) ==
    CASE fn = "trim" -> Str(Trim(v.s))

\* (mutant: the check forgets the empty string)
IsEmptyValue_NoEmptyString(v) == v.t = "undefined" \/ v.t = "null"

\* the check of superRefine: val === undefined || val === null || val === ''
IsEmptyValue(v) == v.t = "undefined" \/ v.t = "null" \/ v = EmptyStr

RequiredMessage(label) == label \o " is required"

RECURSIVE Parse(_, _)
Parse(node, v) ==
    CASE node.k = "string" -> ParseString(node, v)
      [] node.k = "number" -> ParseNumber(node, v)
      [] node.k = "boolean" -> ParseBoolean(v)
      [] node.k = "date" -> ParseDate(v)
      [] node.k = "instanceof" -> ParseInstanceOfFile(v)
      [] node.k = "array" ->
            \* ZodArray._parse
            IF v.t # "array" THEN Aborted(<<InvalidType("array", v)>>)
            ELSE MergeArray(ArrayIssues(node.checks, Len(v.items)),
                            [i \in 1..Len(v.items) |-> Parse(node.element, v.items[i])])
      [] node.k = "tuple" ->
            \* ZodTuple._parse, no rest element
            IF v.t # "array" THEN Aborted(<<InvalidType("array", v)>>)
            ELSE IF Len(v.items) < Len(node.items)
            THEN Aborted(<<"Array must contain at least " \o ToString(Len(node.items))
                           \o " element(s)">>)
            ELSE MergeArray(IF Len(v.items) > Len(node.items)
                            THEN <<"Array must contain at most "
                                   \o ToString(Len(node.items)) \o " element(s)">>
                            ELSE <<>>,
                            [i \in 1..Len(node.items) |-> Parse(node.items[i], v.items[i])])
      [] node.k = "default" ->
            \* ZodDefault._parse
            Parse(node.inner, IF v.t = "undefined" THEN node.value ELSE v)
      [] node.k = "optional" ->
            \* ZodOptional._parse
            IF v.t = "undefined" THEN Valid(Undefined) ELSE Parse(node.inner, v)
      [] node.k = "refine" ->
            \* ZodEffects._parse, a refinement
            LET inner == Parse(node.inner, v)
            IN  IF inner.status = "aborted" THEN Aborted(inner.issues)
                ELSE Checked(inner.value,
                             inner.issues \o (IF RefinePasses(node.pred, inner.value)
                                              THEN <<>> ELSE <<node.msg>>))
      [] node.k = "superRefine" ->
            \* ZodEffects._parse, the refinement of the required composition
            LET inner == Parse(node.inner, v)
            IN  IF inner.status = "aborted" THEN Aborted(inner.issues)
                ELSE Checked(inner.value,
                             inner.issues \o (IF IsEmptyValue(inner.value)
                                              THEN <<RequiredMessage(node.label)>>
                                              ELSE <<>>))
      [] node.k = "transform" ->
            \* ZodEffects._parse, a transform
            LET inner == Parse(node.inner, v)
            IN  IF inner.status # "valid" THEN inner
                ELSE Valid(ApplyTransform(node.fn, inner.value))

\* the value of a record's key; a missing key reads as undefined
Get(rec, name) == IF name \in DOMAIN rec THEN rec[name] ELSE Undefined

NoErrors == <<>>
NoValues == <<>>

\* no validator yet, no validation yet
NoSchema == [k |-> "none"]
NoResult == [none |-> TRUE]

\* (mutant: the parse stops at the first key that fails)
SafeParse_FirstFailure(object, rec) ==
    LET names == DOMAIN object.shape
        parsed == [n \in names |-> Parse(object.shape[n], Get(rec, n))]
        failing == {n \in names : parsed[n].issues # <<>>}
        first == CHOOSE n \in failing : TRUE
    IN  IF failing = {}
        THEN [ok |-> TRUE, values |-> [n \in names |-> parsed[n].value], errors |-> NoErrors]
        ELSE [ok |-> FALSE, values |-> NoValues, errors |-> (first :> parsed[first].issues)]

\* (mutant: the issues of the validation before are kept and reported again)
SafeParse_KeepsIssues(object, rec) ==
    LET names == DOMAIN object.shape
        parsed == [n \in names |-> Parse(object.shape[n], Get(rec, n))]
        failing == {n \in names : parsed[n].issues # <<>>}
        set == {n \in names : parsed[n].value # Undefined \/ n \in DOMAIN rec}
        kept == IF result = NoResult \/ result.ok THEN {} ELSE DOMAIN result.errors
    IN  IF kept = {} /\ \A n \in names : parsed[n].status = "valid"
        THEN [ok |-> TRUE, values |-> [n \in set |-> parsed[n].value], errors |-> NoErrors]
        ELSE [ok |-> FALSE, values |-> NoValues,
              errors |-> [n \in failing \cup kept |->
                            (IF n \in kept THEN result.errors[n] ELSE <<>>)
                            \o (IF n \in failing THEN parsed[n].issues ELSE <<>>)]]

\* ZodObject._parse and safeParse: every key of the shape is parsed, the
\* issues of all of them are kept (flattened to fieldErrors).
SafeParse(object, rec) ==
    LET names == DOMAIN object.shape
        parsed == [n \in names |-> Parse(object.shape[n], Get(rec, n))]
        failing == {n \in names : parsed[n].issues # <<>>}
        set == {n \in names : parsed[n].value # Undefined \/ n \in DOMAIN rec}
    IN  IF \A n \in names : parsed[n].status = "valid"
        THEN [ok |-> TRUE, values |-> [n \in set |-> parsed[n].value], errors |-> NoErrors]
        ELSE [ok |-> FALSE, values |-> NoValues,
              errors |-> [n \in failing |-> parsed[n].issues]]

-----------------------------------------------------------------------------
(* The inputs of the model: field descriptors and candidate values.        *)

\* longest freely enumerated string suffix
MaxTail == 3
\* largest magnitude of a Slider bound supplied by a descriptor
MaxSliderBound == 2
\* longest field list
MaxFields == 2

\* an upper-case letter, a lower-case letter, a digit, a special character
\* and white space
Chars == {"A", "a", "1", "!", " "}

RECURSIVE StringsUpTo(_)
StringsUpTo(n) ==
    IF n = 0 THEN {<<>>}
    ELSE LET shorter == StringsUpTo(n - 1)
         IN  shorter \cup {Append(s, c) : s \in {x \in shorter : Len(x) = n - 1}, c \in Chars}

Tails == StringsUpTo(MaxTail)

\* a run of one character, then a free suffix: strings around a length limit
Padded(pads) == {Rep(c, k) \o s : c \in Chars, k \in pads, s \in Tails}

Empties == {Undefined, Null, EmptyStr}

MiB4 == 4 * 1024 * 1024

Files(n, size) == Arr([i \in 1..n |-> FileV(size)])
Tags(n, len) == Arr([i \in 1..n |-> Str(Rep("a", len))])

UnknownVariant == "Frobnicator"

AllVariants == Variants \cup {UnknownVariant}

\* the candidate values of a field of a variant, besides the absent one
ValuesFor(variant) ==
    Empties \cup
    CASE variant \in {"Checkbox", "Switch"} ->
            {Bool(TRUE), Bool(FALSE), Str(<<"a">>)}
      [] variant = "Combobox" ->
            {Str(<<"e", "n">>), Str(<<"z", "h">>), Str(<<"x", "x">>), Str(<<"E", "N">>), Num(1)}
      [] variant \in {"Date Picker", "Datetime Picker", "Smart Datetime Input"} ->
            {Str(<<"2", "0", "2", "4">>), Str(<<"a", "b", "c">>), Num(0),
             DateOfTime(MsPerDay), InvalidDate, Bool(TRUE)}
      [] variant = "File Input" ->
            {Files(0, 1), Files(1, 1), Files(1, MiB4), Files(1, MiB4 + 1), Files(5, 1),
             Files(6, 1), Files(5, MiB4), Files(6, MiB4 + 1), Arr(<<Str(<<"a">>)>>)}
      [] variant \in {"Input", "Select", UnknownVariant} ->
            {Str(s) : s \in Tails} \cup {Num(1)}
      [] variant = "Textarea" ->
            {Str(s) : s \in Tails} \cup {Str(Rep("a", 1000)), Str(Rep("a", 1001)), Num(1)}
      [] variant = "Input OTP" -> {Str(s) : s \in Padded({0, 3, 4})} \cup {Num(123456)}
      [] variant = "Password" -> {Str(s) : s \in Padded({0, 4, 5, 6})} \cup {Num(1)}
      [] variant = "Location Input" ->
            {Arr(<<Str(<<"U", "S">>), Str(<<"C", "A">>)>>), Arr(<<Str(<<"U", "S">>), Undefined>>),
             Arr(<<Str(<<"U", "S">>)>>), Arr(<<EmptyStr, Str(<<"C", "A">>)>>),
             Arr(<<Str(<<"U", "S">>), Str(<<"C", "A">>), Str(<<"x">>)>>), Str(<<"U", "S">>)}
      [] variant = "Multi Select" ->
            {Tags(0, 1), Tags(1, 1), Tags(10, 1), Tags(11, 1), Arr(<<Num(1)>>), Str(<<"a">>)}
      [] variant = "Tags Input" ->
            {Tags(0, 1), Tags(1, 1), Tags(20, 1), Tags(21, 1), Tags(1, 50), Tags(1, 51),
             Tags(20, 50), Tags(21, 51), Arr(<<Num(1)>>), Str(<<"a">>)}
      [] variant = "Phone" ->
            {Str(<<"+", "1", "2">>), Str(<<"1", "2">>), Str(<<"1">>), Str(<<"0", "1", "2">>),
             Str(<<"1", "a">>), Str(Rep("1", 15)), Str(Rep("1", 16)), Num(12)}
      [] variant = "Signature Input" ->
            {Str(<<"d", "a", "t", "a", ":", "i", "m", "a", "g", "e", "/", "p">>),
             Str(<<"d", "a", "t", "a", ":">>), Str(<<"a">>), Num(1)}
      [] variant = "Slider" ->
            {Num(n) : n \in ((0 - MaxSliderBound - 1)..(MaxSliderBound + 1)) \cup {99, 100, 101}}
            \cup {Str(<<"1">>)}

\* one value the base rule of the variant accepts
Sample(variant) ==
    CASE variant \in {"Checkbox", "Switch"} -> Bool(TRUE)
      [] variant = "Combobox" -> Str(<<"e", "n">>)
      [] variant \in {"Date Picker", "Datetime Picker", "Smart Datetime Input"} ->
            Str(<<"2", "0", "2", "4">>)
      [] variant = "File Input" -> Files(1, 1)
      [] variant = "Input OTP" -> Str(Rep("1", 6))
      [] variant = "Password" -> Str(<<"A", "b", "c", "1", "2", "3", "4", "5", "!">>)
      [] variant = "Location Input" -> Arr(<<Str(<<"U", "S">>), Str(<<"C", "A">>)>>)
      [] variant \in {"Multi Select", "Tags Input"} -> Tags(1, 1)
      [] variant = "Phone" -> Str(<<"+", "1", "2">>)
      [] variant = "Signature Input" ->
            Str(<<"d", "a", "t", "a", ":", "i", "m", "a", "g", "e", "/", "p">>)
      [] variant = "Slider" -> Num(1)
      [] OTHER -> Str(<<"a">>)

\* the candidate values of a field of a longer list, besides the absent one
CoreValuesFor(variant) == {EmptyStr, Sample(variant)}

Descriptor(name, label, variant, required, checked, min, max, step, rowIndex) ==
    [name |-> name, label |-> label, variant |-> variant, required |-> required,
     checked |-> checked, min |-> min, max |-> max, step |-> step,
     rowIndex |-> rowIndex]

Labels == {"Email", "Full name"}

\* the variants whose candidate values are the padded strings
PaddedVariants == {"Input OTP", "Password"}

OptNums(lo, hi) == {NoNum} \cup {SomeNum(n) : n \in lo..hi}

\* the bound a descriptor means: the supplied number, or the fallback
Meant(x, fallback) == IF x.has THEN x.n ELSE fallback

\* the descriptors of the one-field lists
RichDescriptors ==
    {Descriptor("f1", l, v, r, TRUE, NoNum, NoNum, NoNum, 0) :
        l \in Labels, v \in AllVariants \ ({"Slider"} \cup PaddedVariants), r \in BOOLEAN}
    \cup
    {Descriptor("f1", "Secret", v, r, TRUE, NoNum, NoNum, NoNum, 0) :
        v \in PaddedVariants, r \in BOOLEAN}
    \cup
    {Descriptor("f1", "Agree", v, r, FALSE, NoNum, NoNum, NoNum, 0) :
        v \in {"Checkbox", "Switch"}, r \in BOOLEAN}
    \cup
    {d \in {Descriptor("f1", "Volume", "Slider", r, TRUE, lo, hi, st, 0) :
                r \in BOOLEAN,
                lo \in OptNums(0 - MaxSliderBound, MaxSliderBound),
                hi \in OptNums(0 - MaxSliderBound, MaxSliderBound),
                st \in OptNums(0, MaxSliderBound)} :
        Meant(d.min, 0) <= Meant(d.max, 100)}

\* the i-th descriptor of a longer list, displayed in list order
BasicDescriptor(i, v, r) ==
    Descriptor("f" \o ToString(i), "Field " \o ToString(i), v, r, TRUE, NoNum, NoNum, NoNum,
               i - 1)

\* one variant of each shape of rule: default, transform, number, coercion,
\* inner optional, array with refinement, string checks, fallback
MixVariants ==
    {"Checkbox", "Input", "Slider", "Date Picker", "File Input", "Tags Input",
     "Password", UnknownVariant}

\* the lists of n descriptors, of the given variants and required flags
RECURSIVE BasicLists(_, _, _)
BasicLists(n, variants, flags) ==
    IF n = 0 THEN {<<>>}
    ELSE {Append(fs, BasicDescriptor(n, v, r)) :
            fs \in BasicLists(n - 1, variants, flags), v \in variants, r \in flags}

\* the longer lists: every mix of the representative variants, required or
\* not, and every mix of all the variants, none required
MixedLists == UNION {BasicLists(n, MixVariants, BOOLEAN) : n \in (0..MaxFields) \ {1}}
OptionalLists == UNION {BasicLists(n, AllVariants, {FALSE}) : n \in 2..MaxFields}

\* the variants of the lists whose names and row indices are arranged freely
ArrangedVariants == {"Input", "Checkbox"}

ArrangedNames == {"f1", "f2"}

\* row indices in list order, in reverse order, and all equal
RowIndices(n) == {[i \in 1..n |-> i - 1], [i \in 1..n |-> n - i], [i \in 1..n |-> 0]}

\* the lists of n descriptors with any names, displayed in or out of order
ArrangedListsOf(n) ==
    {[i \in 1..n |-> Descriptor(names[i], "Field " \o ToString(i), variants[i], r, FALSE,
                                NoNum, NoNum, NoNum, rows[i])] :
        names \in [1..n -> ArrangedNames], variants \in [1..n -> ArrangedVariants],
        r \in BOOLEAN, rows \in RowIndices(n)}

ArrangedLists == UNION {ArrangedListsOf(n) : n \in 2..MaxFields}

FieldLists ==
    {<<d>> : d \in RichDescriptors} \cup MixedLists \cup OptionalLists \cup ArrangedLists

\* the records over the names of a field list
RecordsFor(fs) ==
    IF fs = <<>>
    THEN {<<>>, ("f1" :> Str(<<"a">>)), ("f1" :> Null), ("f1" :> Num(1))}
    ELSE IF Len(fs) = 1
    THEN {<<>>} \cup {(fs[1].name :> v) : v \in ValuesFor(fs[1].variant) \ {Undefined}}
    ELSE IF \A i \in 1..Len(fs) : fs[i].variant \in MixVariants
    THEN LET names == {fs[i].name : i \in 1..Len(fs)}
             core(n) == UNION {CoreValuesFor(fs[i].variant) :
                                 i \in {j \in 1..Len(fs) : fs[j].name = n}}
         IN  UNION {{rec \in [S -> UNION {core(n) : n \in S}] :
                        \A n \in S : rec[n] \in core(n)} : S \in SUBSET names}
    ELSE {<<>>, [n \in {fs[i].name : i \in 1..Len(fs)} |-> EmptyStr]}

-----------------------------------------------------------------------------
(* The form component: every render compiles the schema from its field     *)
(* list and sorts the list for display; the widgets hand what the user     *)
(* enters to the form, and submitting validates the record of the form.    *)

\* Array.prototype.sort with (a, b) => a.rowIndex - b.rowIndex: stable, and
\* in place
RECURSIVE InsertByRowIndex(_, _)
InsertByRowIndex(sorted, d) ==
    IF sorted = <<>> THEN <<d>>
    ELSE IF Head(sorted).rowIndex <= d.rowIndex
    THEN <<Head(sorted)>> \o InsertByRowIndex(Tail(sorted), d)
    ELSE <<d>> \o sorted

RECURSIVE SortByRowIndex(_)
SortByRowIndex(fs) ==
    IF fs = <<>> THEN <<>>
    ELSE InsertByRowIndex(SortByRowIndex(SubSeq(fs, 1, Len(fs) - 1)), fs[Len(fs)])

\* the keys of renderMap: the variants that have a widget of their own
renderMap == Variants \ {"Datetime Picker"}

\* renderMap[field.variant] || the plain text input
Widget(field) == IF field.variant \in renderMap THEN field.variant ELSE "Input"

\* the widgets whose render wires no formField.onChange
Unwired == {"File Input", "Input OTP"}

\* useState(field.checked) of a Checkbox or Switch, after the toggles so far
checked(i) == IF i \in DOMAIN shown THEN shown[i].b ELSE fields[i].checked

\* what the user enters in the widget at position i: a toggle, a picked
\* date, a country with no state yet, the lowest position of the slider, or
\* a value of the shape of the variant
Entered(i) ==
    CASE Widget(fields[i]) \in {"Checkbox", "Switch"} -> Bool(~checked(i))
      [] Widget(fields[i]) \in {"Date Picker", "Smart Datetime Input"} -> DateOfTime(MsPerDay)
      [] Widget(fields[i]) = "Location Input" -> Arr(<<Str(<<"U", "S">>), EmptyStr>>)
      [] Widget(fields[i]) = "Slider" -> Num(OrElse(fields[i].min, 0))
      [] OTHER -> Sample(fields[i].variant)

-----------------------------------------------------------------------------
(* The state of the other components: the page, the server action and the *)
(* hook.                                                                   *)

\* string | null
NoMessage == [has |-> FALSE, text |-> ""]
Message(text) == [has |-> TRUE, text |-> text]

\* FormResponse | null
NoForm == [has |-> FALSE, forms |-> <<>>]
Form(fs) == [has |-> TRUE, forms |-> fs]

\* a promise of generateFormResponse: pending, fulfilled with the object,
\* rejected with an Error or rejected with a value that is not an Error
Pending == [kind |-> "pending", object |-> <<>>, message |-> ""]
Fulfilled(object) == [kind |-> "fulfilled", object |-> object, message |-> ""]
ThrewError(message) == [kind |-> "error", object |-> <<>>, message |-> message]
ThrewValue == [kind |-> "value", object |-> <<>>, message |-> ""]

\* the promise of submitForm: pending, resolved with { message, response }
\* or { message, error }, or rejected
NotReturned == [state |-> "pending", message |-> "", response |-> NoForm, error |-> NoMessage]
Resolved(message, resp, err) ==
    [state |-> "resolved", message |-> message, response |-> resp, error |-> err]
Rejected(reason) ==
    [state |-> "rejected", message |-> "", response |-> NoForm, error |-> reason]

\* the form component is not rendered
FormUnmounted ==
    /\ fields = <<>>
    /\ compiledFrom = <<>>
    /\ schema = NoSchema
    /\ shown = <<>>
    /\ record = <<>>
    /\ result = NoResult
    /\ pc = "unmounted"

\* the page as mounted: useState(''), useState(null), useState(false),
\* useState(null), nothing awaited
PageMounted ==
    /\ prompt = <<>>
    /\ formFields = NoForm
    /\ isLoading = FALSE
    /\ error = NoMessage
    /\ calls = <<>>

\* the server action is not running
SubmitIdle ==
    /\ submitPc = "idle"
    /\ data = <<>>
    /\ response = Pending
    /\ returned = NotReturned

\* the hook is not in use
HookIdle ==
    /\ hookPrompt = <<>>
    /\ hookFields = <<>>
    /\ effectPending = FALSE

Init ==
    /\ fields \in FieldLists
    /\ compiledFrom = <<>>
    /\ schema = NoSchema
    /\ shown = <<>>
    /\ record = <<>>
    /\ result = NoResult
    /\ pc = "fresh"
    /\ PageMounted
    /\ SubmitIdle
    /\ HookIdle

\* a render of DynamicForm: const formSchema = generateZodSchema(fields),
\* then fields.sort(...).map(renderFormField)
Render ==
    /\ pc \in {"fresh", "compiled", "editing"}
    /\ compiledFrom' = fields
    /\ schema' = generateZodSchema(fields)
    /\ fields' = SortByRowIndex(fields)
    /\ pc' = IF pc = "fresh" THEN "compiled" ELSE pc
    /\ UNCHANGED <<shown, record, result>>
    /\ UNCHANGED <<pageVars, submitVars, hookVars>>

\* the user enters a value in the widget at position i: the widget keeps it
\* and, where it is wired, calls formField.onChange
Enter ==
    /\ pc \in {"compiled", "editing"}
    /\ \E i \in 1..Len(fields) :
          /\ shown' = (i :> Entered(i)) @@ shown
          /\ record' = IF Widget(fields[i]) \in Unwired THEN record
                       ELSE (fields[i].name :> Entered(i)) @@ record
    /\ pc' = "editing"
    /\ UNCHANGED <<fields, compiledFrom, schema, result>>
    /\ UNCHANGED <<pageVars, submitVars, hookVars>>

\* form.handleSubmit: the resolver validates the record of the form (the
\* form can be submitted again)
Submit ==
    /\ pc \in {"compiled", "editing", "validated"}
    /\ result' = SafeParse(schema, record)
    /\ pc' = "validated"
    /\ UNCHANGED <<fields, compiledFrom, schema, shown, record>>
    /\ UNCHANGED <<pageVars, submitVars, hookVars>>

\* the aggregate validator applied to a record of any shape
Validate ==
    /\ pc = "compiled"
    /\ \E rec \in RecordsFor(fields) :
          /\ record' = rec
          /\ result' = SafeParse(schema, rec)
    /\ pc' = "validated"
    /\ UNCHANGED <<fields, compiledFrom, schema, shown>>
    /\ UNCHANGED <<pageVars, submitVars, hookVars>>

Next == Render \/ Enter \/ Submit \/ Validate

Spec == Init /\ [][Next]_vars

-----------------------------------------------------------------------------
(* The generation path: generateFormResponse (src/app/actions/jsonOutput.ts)*)
(* validates what the language model wrote against formFieldSchema         *)
(* (src/app/actions/schema.ts); the page (src/app/page.tsx) normalises the *)
(* object and hands the list to the form component.                        *)

\* a property of the object the language model wrote: present or missing
Present(x) == [has |-> TRUE, v |-> x]
Absent(d) == [has |-> FALSE, v |-> d]

\* a ?? d
OrDefault(x, d) == IF x.has THEN x.v ELSE d

\* one field of the object the language model wrote
RawField(name, label, variant, required, isChecked, rowIndex) ==
    [name |-> name, label |-> label, variant |-> variant, required |-> required,
     checked |-> isChecked, rowIndex |-> rowIndex,
     min |-> NoNum, max |-> NoNum, step |-> NoNum]

\* the fields the model may write: each of the 18 tags, a tag that is not
\* one of them, no tag at all; required and checked given or left out; a
\* row index that is valid or negative
RawVariants == {Present(v) : v \in Variants \cup {"Rating"}} \cup {Absent("")}

RawFields ==
    {RawField(Present("f1"), Present("Email"), v, r, c, ri) :
        v \in RawVariants,
        r \in {Absent(FALSE), Present(TRUE)},
        c \in {Absent(FALSE), Present(FALSE)},
        ri \in {Present(0), Present(0 - 1)}}

\* fields of two-field objects
PairFields ==
    {RawField(Present(n), Present("Full name"), Present(v), Absent(FALSE), Present(TRUE),
              Present(ri)) :
        n \in {"f1", "f2"}, v \in {"Input", "Rating"}, ri \in {1}}

RawOutputs ==
    {<<>>} \cup {<<f>> : f \in RawFields}
           \cup {<<f, g>> : f \in {x \in RawFields : x.variant = Present("Checkbox")
                                                    /\ x.required.has /\ x.checked.has},
                            g \in PairFields}

\* (mutant: the variant is not checked against the enumeration)
ValidatesField_AnyVariant(raw) ==
    /\ raw.label.has
    /\ raw.name.has
    /\ raw.rowIndex.has /\ raw.rowIndex.v >= 0

\* formFieldSchema accepts the field: label and name are strings, rowIndex
\* is an integer >= 0, variant is one of the enumerated tags
ValidatesField(raw) ==
    /\ raw.label.has
    /\ raw.name.has
    /\ raw.rowIndex.has /\ raw.rowIndex.v >= 0
    /\ raw.variant.has /\ raw.variant.v \in Variants

\* what formFieldSchema returns for a field it accepts: checked defaults to
\* true and required to false
ParseField(raw) ==
    [raw EXCEPT !.checked = Present(OrDefault(raw.checked, TRUE)),
                !.required = Present(OrDefault(raw.required, FALSE))]

NoObjectGenerated == "No object generated: response did not match schema."

\* generateObject with schema z.object({ forms: z.array(formFieldSchema) }):
\* the object is returned as parsed, or the call throws
generateObject(raws) ==
    IF \A i \in 1..Len(raws) : ValidatesField(raws[i])
    THEN Fulfilled([i \in 1..Len(raws) |-> ParseField(raws[i])])
    ELSE ThrewError(NoObjectGenerated)

\* the ways a call of generateFormResponse settles: generateObject's
\* outcome, or a failure of the request (an Error, or a rejection with a
\* value that is not an Error)
generateFormResponse ==
    {generateObject(raws) : raws \in RawOutputs}
        \cup {ThrewError("Failed to fetch"), ThrewValue}

\* result.forms.map(field => ({ checked: field.checked ?? false, ... }))
validatedField(field) ==
    Descriptor(OrDefault(field.name, "field_r"),
               OrDefault(field.label, "Untitled"),
               OrDefault(field.variant, "Input"),
               OrDefault(field.required, FALSE),
               OrDefault(field.checked, FALSE),
               field.min, field.max, field.step,
               OrDefault(field.rowIndex, 0))

validatedFields(forms) == [i \in 1..Len(forms) |-> validatedField(forms[i])]

\* the case labels of the switch of generateZodSchema
SwitchCases ==
    {"Checkbox", "Switch", "Combobox", "Date Picker", "Datetime Picker",
     "Smart Datetime Input", "File Input", "Input", "Input OTP", "Location Input",
     "Multi Select", "Password", "Phone", "Select", "Signature Input", "Slider",
     "Tags Input", "Textarea"}

\* the switch takes its default branch for the descriptor
SelectsDefault(field) == field.variant \notin SwitchCases

-----------------------------------------------------------------------------
(* The page component.                                                     *)

\* longest prompt typed in the page
MaxPrompt == 2
\* most calls of generateFormResponse awaited at once
MaxCalls == 2

PromptChars == {"a", " "}

RECURSIVE PromptsUpTo(_)
PromptsUpTo(n) ==
    IF n = 0 THEN {<<>>}
    ELSE LET shorter == PromptsUpTo(n - 1)
         IN  shorter \cup {Append(s, c) : s \in {x \in shorter : Len(x) = n - 1},
                                          c \in PromptChars}

Prompts == PromptsUpTo(MaxPrompt)

EnterPromptFirst == "Please enter a prompt first"
FailedToGenerate == "Failed to generate form. Please try again."

\* the sequence without its k-th element
Remove(seq, k) == SubSeq(seq, 1, k - 1) \o SubSeq(seq, k + 1, Len(seq))

\* (mutant: the button is disabled only for a blank prompt)
ButtonDisabled_BlankOnly == Trim(prompt) = <<>>

\* <Button disabled={isLoading || !prompt.trim()}>
ButtonDisabled == isLoading \/ Trim(prompt) = <<>>

\* (mutant: the prompt is not checked)
handleGenerateForm_NoGuard ==
    /\ Len(calls) < MaxCalls
    /\ isLoading' = TRUE
    /\ error' = NoMessage
    /\ calls' = Append(calls, [prompt |-> prompt, outcome |-> Pending])
    /\ UNCHANGED <<prompt, formFields>>
    /\ UNCHANGED <<formVars, submitVars, hookVars>>

\* handleGenerateForm up to its await: the blank prompt is refused;
\* otherwise setIsLoading(true), setError(null) and the call starts
handleGenerateForm ==
    /\ IF Trim(prompt) = <<>>
       THEN /\ error' = Message(EnterPromptFirst)
            /\ UNCHANGED <<prompt, formFields, isLoading, calls>>
       ELSE /\ Len(calls) < MaxCalls
            /\ isLoading' = TRUE
            /\ error' = NoMessage
            /\ calls' = Append(calls, [prompt |-> prompt, outcome |-> Pending])
            /\ UNCHANGED <<prompt, formFields>>
    /\ UNCHANGED <<formVars, submitVars, hookVars>>

\* the user types in the prompt input (disabled={isLoading})
SetPrompt ==
    /\ ~isLoading
    /\ \E p \in Prompts : prompt' = p
    /\ UNCHANGED <<formFields, isLoading, error, calls>>
    /\ UNCHANGED <<formVars, submitVars, hookVars>>

\* the user clicks the Generate button
Click ==
    /\ ~ButtonDisabled
    /\ handleGenerateForm

\* a call of generateFormResponse settles
Settle ==
    /\ \E k \in 1..Len(calls) :
          /\ calls[k].outcome = Pending
          /\ \E outcome \in generateFormResponse :
                calls' = [calls EXCEPT ![k].outcome = outcome]
    /\ UNCHANGED <<prompt, formFields, isLoading, error>>
    /\ UNCHANGED <<formVars, submitVars, hookVars>>

\* the rest of the try block: setFormFields({ forms: validatedFields })
Then(object) ==
    /\ formFields' = Form(validatedFields(object))
    /\ UNCHANGED error

\* (mutant: the catch block also drops the form)
Catch_DropsForm ==
    /\ error' = Message(FailedToGenerate)
    /\ formFields' = NoForm

\* catch (err) { setError("Failed to generate form. Please try again.") }
Catch ==
    /\ error' = Message(FailedToGenerate)
    /\ UNCHANGED formFields

\* (mutant: isLoading is reset in the try block only)
Finally_AfterTryOnly(outcome) ==
    isLoading' = IF outcome.kind = "fulfilled" THEN FALSE ELSE isLoading

\* finally { setIsLoading(false) }
Finally(outcome) == isLoading' = FALSE

\* handleGenerateForm after its await, once the call has settled
Resume ==
    /\ \E k \in 1..Len(calls) :
          /\ calls[k].outcome # Pending
          /\ IF calls[k].outcome.kind = "fulfilled"
             THEN Then(calls[k].outcome.object)
             ELSE Catch
          /\ Finally(calls[k].outcome)
          /\ calls' = Remove(calls, k)
    /\ UNCHANGED prompt
    /\ UNCHANGED <<formVars, submitVars, hookVars>>

PageInit ==
    /\ PageMounted
    /\ FormUnmounted
    /\ SubmitIdle
    /\ HookIdle

PageNext == SetPrompt \/ Click \/ Settle \/ Resume

PageSpec == PageInit /\ [][PageNext]_vars

\* a call that was started settles, and the continuation of a settled call
\* runs
PageLive == PageSpec /\ WF_vars(Settle) /\ WF_vars(Resume)

\* the forms the page can hold
GeneratedForms ==
    {NoForm} \cup {Form(validatedFields(o.object)) :
                    o \in {x \in generateFormResponse : x.kind = "fulfilled"}}

\* handleGenerateForm called on any state of the page at rest
HandlerInit ==
    /\ prompt \in Prompts
    /\ formFields \in GeneratedForms
    /\ isLoading = FALSE
    /\ error \in {NoMessage, Message(FailedToGenerate)}
    /\ calls = <<>>
    /\ FormUnmounted
    /\ SubmitIdle
    /\ HookIdle

HandlerNext == handleGenerateForm

HandlerSpec == HandlerInit /\ [][HandlerNext]_vars

-----------------------------------------------------------------------------
(* The server action submitForm (src/app/actions/submitForm.ts).           *)

\* the records the action is called with
SubmitRecords ==
    {<<>>} \cup {("f1" :> v) : v \in {EmptyStr, Str(<<"a">>), Bool(TRUE), Num(1)}}

SubmittedSuccessfully == "Form submitted successfully!"
ErrorProcessingForm == "Error processing form"
UnknownError == "Unknown error"

\* (mutant: the catch block throws the error again)
Caught_Rethrows(outcome) ==
    Rejected(Message(IF outcome.kind = "error" THEN outcome.message ELSE UnknownError))

\* catch (error) { return { message: 'Error processing form',
\*   error: error instanceof Error ? error.message : 'Unknown error' } }
Caught(outcome) ==
    Resolved(ErrorProcessingForm, NoForm,
             Message(IF outcome.kind = "error" THEN outcome.message ELSE UnknownError))

\* return { message: 'Form submitted successfully!', response: response }
Succeeded(outcome) == Resolved(SubmittedSuccessfully, Form(outcome.object), NoMessage)

\* await new Promise(resolve => setTimeout(resolve, 1000)): the timer
\* fires and generateFormResponse(data) is called
TimerFires ==
    /\ submitPc = "delay"
    /\ submitPc' = "calling"
    /\ UNCHANGED <<data, response, returned>>
    /\ UNCHANGED <<formVars, pageVars, hookVars>>

\* the call of generateFormResponse settles
CallSettles ==
    /\ submitPc = "calling"
    /\ \E outcome \in generateFormResponse : response' = outcome
    /\ submitPc' = "settled"
    /\ UNCHANGED <<data, returned>>
    /\ UNCHANGED <<formVars, pageVars, hookVars>>

\* the try block returns, or the catch block does
Return ==
    /\ submitPc = "settled"
    /\ returned' = IF response.kind = "fulfilled" THEN Succeeded(response)
                   ELSE Caught(response)
    /\ submitPc' = "returned"
    /\ UNCHANGED <<data, response>>
    /\ UNCHANGED <<formVars, pageVars, hookVars>>

\* submitForm(data) is called
SubmitInit ==
    /\ submitPc = "delay"
    /\ data \in SubmitRecords
    /\ response = Pending
    /\ returned = NotReturned
    /\ FormUnmounted
    /\ PageMounted
    /\ HookIdle

SubmitNext == TimerFires \/ CallSettles \/ Return

SubmitSpec == SubmitInit /\ [][SubmitNext]_vars

-----------------------------------------------------------------------------
(* The hook useFormGenerator (src/lib/form-utils.ts).                      *)

\* most words of a prompt handed to the hook
MaxWords == 2

Words ==
    {<<"n", "a", "m", "e">>, <<"E", "m", "a", "i", "l">>, <<"p", "a", "g", "e">>,
     <<"u", "p", "D", "A", "T", "E">>, <<" ">>, <<"x">>}

RECURSIVE PhrasesUpTo(_)
PhrasesUpTo(n) ==
    IF n = 0 THEN {<<>>}
    ELSE LET shorter == PhrasesUpTo(n - 1)
         IN  shorter \cup {s \o w : s \in shorter, w \in Words}

HookPrompts == PhrasesUpTo(MaxWords)

UpperCase ==
    <<"A", "B", "C", "D", "E", "F", "G", "H", "I", "J", "K", "L", "M",
      "N", "O", "P", "Q", "R", "S", "T", "U", "V", "W", "X", "Y", "Z">>
LowerCase ==
    <<"a", "b", "c", "d", "e", "f", "g", "h", "i", "j", "k", "l", "m",
      "n", "o", "p", "q", "r", "s", "t", "u", "v", "w", "x", "y", "z">>

LowerOf(c) ==
    IF \E k \in 1..26 : UpperCase[k] = c
    THEN LowerCase[CHOOSE k \in 1..26 : UpperCase[k] = c]
    ELSE c

\* String.prototype.toLowerCase
toLowerCase(s) == [i \in 1..Len(s) |-> LowerOf(s[i])]

\* (mutant: the keyword is looked for at the start only)
includes_AtStart(s, sub) == StartsWith(s, sub)

\* String.prototype.includes
includes(s, sub) ==
    \E i \in 0..(Len(s) - Len(sub)) : SubSeq(s, i + 1, i + Len(sub)) = sub

HookField(name, type, label) == [name |-> name, type |-> type, label |-> label]

\* the four pushes of the effect
generatedFields(p) ==
    (IF includes(toLowerCase(p), <<"n", "a", "m", "e">>)
     THEN <<HookField("name", "text", "Name")>> ELSE <<>>)
    \o (IF includes(toLowerCase(p), <<"e", "m", "a", "i", "l">>)
        THEN <<HookField("email", "email", "Email")>> ELSE <<>>)
    \o (IF includes(toLowerCase(p), <<"a", "g", "e">>)
        THEN <<HookField("age", "number", "Age")>> ELSE <<>>)
    \o (IF includes(toLowerCase(p), <<"d", "a", "t", "e">>)
        THEN <<HookField("date", "date", "Date")>> ELSE <<>>)

\* the component renders with a prompt; the effect is scheduled when the
\* dependency [prompt] changed
HookRender ==
    /\ ~effectPending
    /\ \E p \in HookPrompts :
          /\ hookPrompt' = p
          /\ effectPending' = (p # hookPrompt)
    /\ UNCHANGED hookFields
    /\ UNCHANGED <<formVars, pageVars, submitVars>>

\* the effect runs: if (!prompt) return; ...; setFields(generatedFields)
RunEffect ==
    /\ effectPending
    /\ effectPending' = FALSE
    /\ hookFields' = IF hookPrompt = <<>> THEN hookFields
                     ELSE generatedFields(hookPrompt)
    /\ UNCHANGED hookPrompt
    /\ UNCHANGED <<formVars, pageVars, submitVars>>

\* the mount: useState([]) and the effect of the first render to run
HookInit ==
    /\ hookPrompt \in HookPrompts
    /\ hookFields = <<>>
    /\ effectPending = TRUE
    /\ FormUnmounted
    /\ PageMounted
    /\ SubmitIdle

HookNext == HookRender \/ RunEffect

HookSpec == HookInit /\ [][HookNext]_vars

-----------------------------------------------------------------------------
(* What the claims speak of.                                               *)

Validated == pc = "validated"

\* the candidate value the record holds for a name (undefined when omitted)
ValueOf(name) == Get(record, name)

\* the messages reported for a name, in order
ErrorsOf(name) ==
    IF ~result.ok /\ name \in DOMAIN result.errors THEN result.errors[name] ELSE <<>>

Messages(seq) == {seq[i] : i \in 1..Len(seq)}

\* the i-th descriptor is the only one of its name
UniqueName(i) == \A j \in 1..Len(fields) : fields[j].name = fields[i].name => j = i

Fields == 1..Len(fields)

EmptyRecord == DOMAIN record = {}

-----------------------------------------------------------------------------
\* the variants whose rule fills an omitted value in (default = checked)
DefaultedVariants == {"Checkbox", "Switch"}

\* C1: for every required field, validating a record that omits the field's
\* value yields exactly one error for that field, with the message
\* "<label> is required".  (Stated for the variants that have no default
\* value; a required Checkbox or Switch reports no error at all.)
C1_OmittedRequiredYieldsLabelError ==
    Validated =>
        \A i \in Fields :
            (/\ UniqueName(i)
             /\ fields[i].required
             /\ fields[i].variant \notin DefaultedVariants
             /\ fields[i].name \notin DOMAIN record)
            => ErrorsOf(fields[i].name) = <<RequiredMessage(fields[i].label)>>

\* C2: for every field that is not required, an absent, null or empty-string
\* value is accepted with no error for the field, and a present non-empty
\* value is validated against the base rule of the variant.
C2_OptionalAcceptsEmptyForms ==
    Validated =>
        \A i \in Fields :
            (UniqueName(i) /\ ~fields[i].required)
            => LET v == ValueOf(fields[i].name)
               IN  IF IsEmptyValue(v)
                   THEN ErrorsOf(fields[i].name) = <<>>
                   ELSE ErrorsOf(fields[i].name) = Parse(BaseSchema(fields[i]), v).issues

\* C3: when no descriptor of the list is required, validating the empty
\* record succeeds.
C3_AllOptionalAcceptsEmptyRecord ==
    (Validated /\ EmptyRecord /\ \A i \in Fields : ~fields[i].required) => result.ok

\* C3 witness: a list mixing a recognized and an unrecognized variant, none
\* required, validated against the empty record.
C3_Witness ==
    /\ Validated
    /\ EmptyRecord
    /\ Len(fields) = 2
    /\ fields[1].variant = "Phone"
    /\ fields[2].variant = UnknownVariant
    /\ \A i \in Fields : ~fields[i].required
    /\ result.ok

\* C4: for every required field, each of the three empty forms of the value
\* (undefined, null, '') is reported with the message "<label> is required".
\* (Stated for the variants that have no default value.)
C4_EmptyFormsReportLabelError ==
    Validated =>
        \A i \in Fields :
            (/\ UniqueName(i)
             /\ fields[i].required
             /\ fields[i].variant \notin DefaultedVariants
             /\ IsEmptyValue(ValueOf(fields[i].name)))
            => RequiredMessage(fields[i].label) \in Messages(ErrorsOf(fields[i].name))

\* the names whose validator rejects the value the record holds
FailingNames ==
    {n \in DOMAIN schema.shape : Parse(schema.shape[n], ValueOf(n)).status # "valid"}

\* C5: validation does not stop at the first failure: every field holding a
\* failing value has an entry in the error mapping of the result, and the
\* failure is a result value (ok = false).
C5_EveryFailingFieldReported ==
    Validated =>
        /\ FailingNames # {} => (~result.ok /\ FailingNames \subseteq DOMAIN result.errors)
        /\ FailingNames = {} => result.ok

\* C5 witness: two fields fail at once and both are reported.
C5_Witness ==
    /\ Validated
    /\ Cardinality(FailingNames) = 2
    /\ ~result.ok
    /\ DOMAIN result.errors = FailingNames

\* C6: an unrecognized variant compiles to the generic fallback: not
\* required, it accepts an absent value and every string; required, it
\* rejects exactly the empty values among absent, null and strings.
C6_UnknownVariantIsGenericFallback ==
    (pc # "fresh") =>
        \A i \in Fields :
            (UniqueName(i) /\ fields[i].variant \notin Variants)
            => /\ schema.shape[fields[i].name] = ComposeRequired(fields[i], ZString(<<>>))
               /\ Validated =>
                    LET v == ValueOf(fields[i].name)
                    IN  (v.t \in {"undefined", "null", "string"})
                        => IF fields[i].required
                           THEN (ErrorsOf(fields[i].name) # <<>>) <=> IsEmptyValue(v)
                           ELSE (v.t # "null") => ErrorsOf(fields[i].name) = <<>>

\* C6 witness: a required field of an unrecognized variant accepts a
\* non-empty string.
C6_Witness ==
    /\ Validated
    /\ Len(fields) = 1
    /\ fields[1].variant = UnknownVariant
    /\ fields[1].required
    /\ ValueOf(fields[1].name) = Str(<<"a", " ", "!">>)
    /\ result.ok

\* C7: for a Slider whose bounds are multiples of its step, a number below
\* min, above max or not a multiple of step fails, and the numbers min and
\* max pass (min, max, step default to 0, 100, 1).
C7_SliderRange ==
    Validated =>
        \A i \in Fields :
            LET lo == Meant(fields[i].min, 0)
                hi == Meant(fields[i].max, 100)
                st == Meant(fields[i].step, 1)
                v == ValueOf(fields[i].name)
            IN  (/\ UniqueName(i)
                 /\ fields[i].variant = "Slider"
                 /\ v.t = "number"
                 /\ st >= 1
                 /\ lo % st = 0
                 /\ hi % st = 0)
                => /\ (v.n < lo \/ v.n > hi \/ v.n % st # 0) => ErrorsOf(fields[i].name) # <<>>
                   /\ (v.n = lo \/ v.n = hi) => ErrorsOf(fields[i].name) = <<>>

\* the checks of the number rule a Slider field compiled to
SliderChecks(i) == schema.shape[fields[i].name].inner.checks

\* C8: the validator of a Slider enforces the bounds the descriptor
\* supplies (0 included), and the fallbacks exactly where the descriptor
\* supplies none.  (Stated for min and max, fallbacks 0 and 100; a supplied
\* step of 0 is replaced by 1 in the same way.)
C8_SliderBoundsAsSupplied ==
    (pc # "fresh") =>
        \A i \in Fields :
            (UniqueName(i) /\ fields[i].variant = "Slider")
            => /\ SliderChecks(i)[1] = NMin(Meant(fields[i].min, 0))
               /\ SliderChecks(i)[2] = NMax(Meant(fields[i].max, 100))

\* the constraints of the Password rule a string violates
PasswordViolations(s) ==
    {c \in {"length", "uppercase", "lowercase", "digit", "special"} :
        CASE c = "length" -> Len(s) < 8
          [] c = "uppercase" -> \A k \in 1..Len(s) : s[k] \notin Upper
          [] c = "lowercase" -> \A k \in 1..Len(s) : s[k] \notin Lower
          [] c = "digit" -> \A k \in 1..Len(s) : s[k] \notin Digit
          [] c = "special" -> \A k \in 1..Len(s) : s[k] \in (Upper \cup Lower \cup Digit)}

\* C9: a Password field accepts a string exactly when it has at least 8
\* characters, an upper-case letter, a lower-case letter, a digit and a
\* character that is none of these; every violated constraint adds a
\* message of its own.
C9_PasswordRule ==
    Validated =>
        \A i \in Fields :
            (UniqueName(i) /\ fields[i].variant = "Password"
                /\ ValueOf(fields[i].name).t = "string")
            => LET s == ValueOf(fields[i].name).s
                   errs == ErrorsOf(fields[i].name)
               IN  /\ (errs = <<>>) <=> (PasswordViolations(s) = {})
                   /\ Cardinality(Messages(errs) \ {RequiredMessage(fields[i].label)})
                        = Cardinality(PasswordViolations(s))

\* C9 witness: a password of 8 characters with neither an upper-case letter
\* nor a special character is rejected with two distinct messages.
C9_Witness ==
    /\ Validated
    /\ Len(fields) = 1
    /\ fields[1].variant = "Password"
    /\ ValueOf(fields[1].name) = Str(<<"a", "a", "a", "a", "a", "1", "1", "1">>)
    /\ Cardinality(Messages(ErrorsOf(fields[1].name))) = 2

\* C10: an Input OTP field accepts a string exactly when it is 6 characters
\* long and all of them are decimal digits.
C10_OtpRule ==
    Validated =>
        \A i \in Fields :
            (UniqueName(i) /\ fields[i].variant = "Input OTP"
                /\ ValueOf(fields[i].name).t = "string")
            => LET s == ValueOf(fields[i].name).s
               IN  (ErrorsOf(fields[i].name) = <<>>)
                   <=> (Len(s) = 6 /\ \A k \in 1..Len(s) : s[k] \in Digit)

\* C10 witness: six digits are accepted.
C10_Witness ==
    /\ Validated
    /\ Len(fields) = 1
    /\ fields[1].variant = "Input OTP"
    /\ ValueOf(fields[1].name) = Str(<<"1", "1", "1", "1", "1", "1">>)
    /\ result.ok

\* a list whose items are all strings
IsStringList(v) == v.t = "array" /\ \A k \in 1..Len(v.items) : v.items[k].t = "string"

\* C11: a Tags Input field accepts a present list of strings exactly when
\* the list has between 1 and 20 items and every item has at most 50
\* characters.
C11_TagsInputRule ==
    Validated =>
        \A i \in Fields :
            (UniqueName(i) /\ fields[i].variant = "Tags Input"
                /\ IsStringList(ValueOf(fields[i].name)))
            => LET tags == ValueOf(fields[i].name).items
               IN  (ErrorsOf(fields[i].name) = <<>>)
                   <=> (/\ Len(tags) >= 1
                        /\ Len(tags) <= 20
                        /\ \A k \in 1..Len(tags) : Len(tags[k].s) <= 50)

\* C11 witness: twenty tags of exactly 50 characters are accepted.
C11_Witness ==
    /\ Validated
    /\ Len(fields) = 1
    /\ fields[1].variant = "Tags Input"
    /\ fields[1].required
    /\ ValueOf(fields[1].name) = Tags(20, 50)
    /\ result.ok

\* C12: when validation succeeds, the value returned for an Input or
\* Textarea field that holds a string is that string without its leading
\* and trailing white space, whether the field is required or not.
C12_TrimmedOnSuccess ==
    (Validated /\ result.ok) =>
        \A i \in Fields :
            (UniqueName(i) /\ fields[i].variant \in {"Input", "Textarea"}
                /\ ValueOf(fields[i].name).t = "string")
            => LET s == ValueOf(fields[i].name).s
                   first == CHOOSE k \in 1..Len(s) : s[k] # " " /\ \A j \in 1..(k - 1) : s[j] = " "
                   last == CHOOSE k \in 1..Len(s) : s[k] # " " /\ \A j \in (k + 1)..Len(s) : s[j] = " "
               IN  /\ fields[i].name \in DOMAIN result.values
                   /\ result.values[fields[i].name] =
                        Str(IF \A k \in 1..Len(s) : s[k] = " " THEN <<>>
                            ELSE SubSeq(s, first, last))

\* C12 witness: a field that is not required returns "a" for " a ".
C12_Witness ==
    /\ Validated
    /\ result.ok
    /\ Len(fields) = 1
    /\ fields[1].variant = "Textarea"
    /\ ~fields[1].required
    /\ ValueOf(fields[1].name) = Str(<<" ", "a", " ">>)
    /\ result.values[fields[1].name] = Str(<<"a">>)

\* C13: for every Checkbox or Switch field, required or not, a record with
\* no value for the field is accepted for that field, and the value
\* returned for it is the descriptor's checked boolean.
C13_BooleanDefaultsToChecked ==
    Validated =>
        \A i \in Fields :
            (UniqueName(i) /\ fields[i].variant \in DefaultedVariants
                /\ fields[i].name \notin DOMAIN record)
            => /\ ErrorsOf(fields[i].name) = <<>>
               /\ result.ok =>
                    /\ fields[i].name \in DOMAIN result.values
                    /\ result.values[fields[i].name] = Bool(fields[i].checked)

\* the names of a list
NamesOf(fs) == {fs[i].name : i \in 1..Len(fs)}

\* the last descriptor of a name, in list order
LastNamed(fs, n) ==
    fs[CHOOSE i \in 1..Len(fs) :
            fs[i].name = n /\ \A j \in (i + 1)..Len(fs) : fs[j].name # n]

\* C14: compiling a list in which descriptors share a name yields an
\* aggregate with one entry per name, and the entry of a name is the
\* validator of the last descriptor of that name in list order.
C14_DuplicateNameLastWins ==
    (pc # "fresh") =>
        /\ schema.k = "object"
        /\ DOMAIN schema.shape = NamesOf(compiledFrom)
        /\ \A n \in NamesOf(compiledFrom) :
                schema.shape[n] = ComposeRequired(LastNamed(compiledFrom, n),
                                                  BaseSchema(LastNamed(compiledFrom, n)))

\* C14 witness: two descriptors of one name and of different variants; the
\* entry is the validator of the second and not that of the first.
C14_Witness ==
    /\ pc = "compiled"
    /\ Len(compiledFrom) = 2
    /\ compiledFrom[1].name = compiledFrom[2].name
    /\ compiledFrom[1].variant = "Input"
    /\ compiledFrom[2].variant = "Checkbox"
    /\ DOMAIN schema.shape = {compiledFrom[1].name}
    /\ schema.shape[compiledFrom[1].name].inner = CheckboxSchema(compiledFrom[2])

\* the names of the list are pairwise distinct
DistinctNames(fs) == \A i, j \in 1..Len(fs) : fs[i].name = fs[j].name => i = j

\* the orders of a list
Reorderings(fs) ==
    {[i \in 1..Len(fs) |-> fs[p[i]]] :
        p \in {q \in [1..Len(fs) -> 1..Len(fs)] :
                \A a, b \in 1..Len(fs) : q[a] = q[b] => a = b}}

\* the list with its row indices replaced
WithRowIndex(fs, rows) == [i \in 1..Len(fs) |-> [fs[i] EXCEPT !.rowIndex = rows[i]]]

\* the same descriptors in any order, with any row indices
Rearrangements(fs) ==
    {WithRowIndex(p, rows) : p \in Reorderings(fs), rows \in [1..Len(fs) -> 0..1]}

\* the list in reverse order
Reversed(fs) == [i \in 1..Len(fs) |-> fs[Len(fs) + 1 - i]]

\* C15: for a list of pairwise distinct names, every permutation of the
\* list and every reassignment of rowIndex compiles to the validator the
\* list compiled to, which therefore returns the same result on every
\* record (evaluated, for the record validated, on the reversed list).
C15_OrderAndRowIndexIrrelevant ==
    /\ (pc = "compiled" /\ DistinctNames(compiledFrom)) =>
            \A other \in Rearrangements(compiledFrom) : generateZodSchema(other) = schema
    /\ (Validated /\ DistinctNames(compiledFrom)) =>
            SafeParse(generateZodSchema(Reversed(compiledFrom)), record) = result

\* C15 witness: a list of two variants that the render displays in another
\* order than it was handed in; validation fails, and fails the same way
\* with the validator compiled from the list in display order.
C15_Witness ==
    /\ Validated
    /\ Len(compiledFrom) = 2
    /\ DistinctNames(compiledFrom)
    /\ compiledFrom[1].variant # compiledFrom[2].variant
    /\ fields # compiledFrom
    /\ ~result.ok
    /\ SafeParse(generateZodSchema(fields), record) = result

C17_FieldListNeverMutated == [][fields' = fields]_vars

\* no descriptor of the list has a variant of the rule table
NoneRecognized(fs) == \A i \in 1..Len(fs) : fs[i].variant \notin Variants

\* C18 (as stated): compiling never fails, and for the empty list and for a
\* list with no recognized variant the aggregate reports ok = true for
\* every record.
C18_UnrecognizedIsAlwaysValid ==
    /\ (pc # "fresh") => schema.k = "object"
    /\ (Validated /\ NoneRecognized(compiledFrom)) => result.ok

\* the generic string rule: a required field takes a non-empty string, a
\* field that is not required takes a string or nothing
GenericAccepts(field, v) ==
    IF field.required THEN v.t = "string" /\ v.s # <<>>
    ELSE v.t \in {"string", "undefined"}

\* C18 (amended): compiling never fails; the aggregate of the empty list
\* reports ok = true for every record, and the aggregate of a list with no
\* recognized variant reports ok = true exactly for the records whose
\* values the generic string rule of each field accepts (stated for the
\* records that hold no null).
C18_UnrecognizedIsGenericString ==
    /\ (pc # "fresh") => schema.k = "object"
    /\ (Validated /\ compiledFrom = <<>>) => result.ok
    /\ (Validated /\ NoneRecognized(compiledFrom)
            /\ \A n \in DOMAIN record : record[n] # Null) =>
            (result.ok <=> \A n \in NamesOf(compiledFrom) :
                                GenericAccepts(LastNamed(compiledFrom, n), ValueOf(n)))

\* C18 witness: the aggregate of the empty list accepts a record that has a
\* value.
C18_Witness ==
    /\ Validated
    /\ compiledFrom = <<>>
    /\ schema = ZObject(<<>>)
    /\ DOMAIN record # {}
    /\ result.ok

\* the descriptor supplies no bound of its own
PlainDescriptor(field) == field.min = NoNum /\ field.max = NoNum /\ field.step = NoNum

\* C19: for each variant, the widget of a required field writes the value
\* the user enters into the form record under the field's name, so that
\* once every widget of the form holds a value, submitting reports
\* ok = true.  (Stated for descriptors that supply no bounds.)
C19_EnteredValueIsSubmittable ==
    (/\ Validated
     /\ DistinctNames(fields)
     /\ \A i \in Fields : i \in DOMAIN shown /\ PlainDescriptor(fields[i]))
    => /\ \A i \in Fields : fields[i].required => ValueOf(fields[i].name) = shown[i]
       /\ result.ok

\* a list whose items are all files
IsFileList(v) == v.t = "array" /\ \A k \in 1..Len(v.items) : v.items[k].t = "file"

\* C20: a File Input field accepts a present list of files exactly when the
\* list has at most 5 files and every file has at most 4 * 1024 * 1024
\* bytes; the base rule accepts an absent list (a field that is not
\* required reports nothing, a required one only its emptiness).
C20_FileInputRule ==
    Validated =>
        \A i \in Fields :
            (UniqueName(i) /\ fields[i].variant = "File Input")
            => LET v == ValueOf(fields[i].name)
                   errs == ErrorsOf(fields[i].name)
               IN  /\ IsFileList(v) =>
                        ((errs = <<>>) <=>
                            (/\ Len(v.items) <= 5
                             /\ \A k \in 1..Len(v.items) : v.items[k].size <= 4 * 1024 * 1024))
                   /\ (v.t = "undefined") =>
                        errs = (IF fields[i].required
                                THEN <<RequiredMessage(fields[i].label)>> ELSE <<>>)

\* C20 witness: five files of exactly 4 MiB are accepted.
C20_Witness ==
    /\ Validated
    /\ Len(fields) = 1
    /\ fields[1].variant = "File Input"
    /\ ValueOf(fields[1].name) = Files(5, MiB4)
    /\ result.ok

IsBlank(s) == \A k \in 1..Len(s) : s[k] = " "

\* C22: for a required Input or Textarea field, no record is accepted with
\* the empty string as the value returned for the field; a string of white
\* space only is rejected by the required check.
C22_RequiredTextNeverEmpty ==
    Validated =>
        \A i \in Fields :
            (UniqueName(i) /\ fields[i].required /\ fields[i].variant \in {"Input", "Textarea"})
            => /\ result.ok =>
                    (fields[i].name \in DOMAIN result.values
                        => result.values[fields[i].name] # Str(<<>>))
               /\ (ValueOf(fields[i].name).t = "string"
                        /\ IsBlank(ValueOf(fields[i].name).s))
                    => fields[i].label \o " is required" \in Messages(ErrorsOf(fields[i].name))

\* C22 witness: two spaces are rejected with the required message alone.
C22_Witness ==
    /\ Validated
    /\ Len(fields) = 1
    /\ fields[1].variant = "Input"
    /\ fields[1].required
    /\ ValueOf(fields[1].name) = Str(<<" ", " ">>)
    /\ ErrorsOf(fields[1].name) = <<fields[1].label \o " is required">>


\* the record holds for the i-th field what its widget wrote (nothing when
\* the widget was never touched)
HoldsWidgetValue(i) ==
    ValueOf(fields[i].name) = IF i \in DOMAIN shown THEN shown[i] ELSE Undefined

\* C28: for a Checkbox or Switch field, required or not, after any number of
\* toggles including none, the boolean the validator yields for the field
\* at submission equals the checked state the widget displays.
C28_SubmittedBooleanIsDisplayed ==
    (Validated /\ result.ok) =>
        \A i \in Fields :
            (/\ UniqueName(i)
             /\ Widget(fields[i]) \in {"Checkbox", "Switch"}
             /\ HoldsWidgetValue(i))
            => Get(result.values, fields[i].name) = Bool(checked(i))


-----------------------------------------------------------------------------
(* The page component.                                                     *)

\* a call settled in the given way is awaited
Awaits(kind) == \E k \in 1..Len(calls) : calls[k].outcome.kind = kind

\* C23: isLoading is true exactly while a call of generateFormResponse
\* started by handleGenerateForm is in flight: it is true from the start of
\* the call, and every call, however it settles (fulfilled, rejected with
\* an Error, rejected with another value), is eventually followed by
\* isLoading = false.
C23_LoadingWhileInFlight ==
    /\ [](isLoading <=> calls # <<>>)
    /\ (calls # <<>>) ~> ~isLoading
    /\ \A kind \in {"fulfilled", "error", "value"} : Awaits(kind) ~> ~isLoading

C23_Witness ==
    /\ ~isLoading
    /\ calls = <<>>
    /\ formFields = NoForm
    /\ error = Message(FailedToGenerate)

\* C24: at most one call of generateFormResponse is in flight at any time:
\* a call starts only when none is in flight and isLoading is false, and
\* the form changes only by the continuation of the sole call in flight.
C24_AtMostOneCallInFlight ==
    /\ [](Len(calls) <= 1)
    /\ [][Len(calls') > Len(calls) => (~isLoading /\ calls = <<>>)]_vars
    /\ [][formFields' # formFields => (Len(calls) = 1 /\ calls' = <<>>)]_vars

C24_Witness ==
    /\ Len(calls) = 1
    /\ calls[1].outcome.kind = "fulfilled"
    /\ formFields.has
    /\ formFields.forms # validatedFields(calls[1].outcome.object)

\* the page renders the generated form
Displayed == formFields.has /\ Len(formFields.forms) > 0

\* C25: when the call made by handleGenerateForm fails, error becomes
\* "Failed to generate form. Please try again." and formFields keeps its
\* value; when it succeeds, formFields becomes the new field list and
\* error is null.
C25_FailureKeepsFormSuccessReplaces ==
    [][Len(calls') < Len(calls) =>
            IF calls[1].outcome.kind = "fulfilled"
            THEN /\ formFields' = Form(validatedFields(calls[1].outcome.object))
                 /\ error' = NoMessage
            ELSE /\ error' = Message(FailedToGenerate)
                 /\ formFields' = formFields]_vars

C25_Witness ==
    /\ ~isLoading
    /\ error = Message(FailedToGenerate)
    /\ Displayed

\* C26: handleGenerateForm called while the prompt is empty or only white
\* space sets error to "Please enter a prompt first", starts no call of
\* generateFormResponse and leaves isLoading and formFields unchanged.
C26_BlankPromptIsRefused ==
    /\ [](\A k \in 1..Len(calls) : Trim(calls[k].prompt) # <<>>)
    /\ [][Trim(prompt) = <<>> =>
            /\ error' = Message(EnterPromptFirst)
            /\ UNCHANGED <<calls, isLoading, formFields>>]_vars

C26_Witness ==
    /\ prompt = <<" ", " ">>
    /\ error = Message(EnterPromptFirst)
    /\ Displayed
    /\ ~isLoading
    /\ calls = <<>>

\* C30: every descriptor that reaches the compiler through the generation
\* path has a variant that is one of the 18 enumerated tags, each of the 18
\* tags is a case of the compiler's switch, and the default rule is never
\* selected on that path.
C30_GeneratedVariantHasItsRule ==
    /\ \A v \in Variants : v \in SwitchCases
    /\ formFields.has =>
            \A i \in 1..Len(formFields.forms) :
                /\ formFields.forms[i].variant \in Variants
                /\ ~SelectsDefault(formFields.forms[i])
                /\ BaseSchema(formFields.forms[i]) # DefaultSchema

C30_Witness ==
    /\ formFields.has
    /\ Len(formFields.forms) = 1
    /\ formFields.forms[1].variant = "Datetime Picker"


-----------------------------------------------------------------------------
(* The server action and the hook.                                         *)

\* C27: submitForm never rejects: when generateFormResponse throws it
\* resolves to { message: 'Error processing form', error } where error is
\* the Error's message, or 'Unknown error' when the value thrown is not an
\* Error; otherwise it resolves to { message: 'Form submitted
\* successfully!', response }.
C27_SubmitFormNeverRejects ==
    /\ returned.state # "rejected"
    /\ submitPc = "returned" =>
            /\ returned.state = "resolved"
            /\ response.kind = "fulfilled" =>
                    returned = Resolved(SubmittedSuccessfully, Form(response.object), NoMessage)
            /\ response.kind = "error" =>
                    returned = Resolved(ErrorProcessingForm, NoForm, Message(response.message))
            /\ response.kind = "value" =>
                    returned = Resolved(ErrorProcessingForm, NoForm, Message(UnknownError))

C27_Witness ==
    /\ submitPc = "returned"
    /\ response = ThrewValue
    /\ returned.state = "resolved"
    /\ returned.error = Message(UnknownError)

\* the keywords in the order of the list, and the field of each
Keywords ==
    << <<"n", "a", "m", "e">>, <<"e", "m", "a", "i", "l">>, <<"a", "g", "e">>,
       <<"d", "a", "t", "e">> >>
KeywordFields ==
    <<HookField("name", "text", "Name"), HookField("email", "email", "Email"),
      HookField("age", "number", "Age"), HookField("date", "date", "Date")>>

\* the keyword occurs in the prompt, letter case aside
Occurs(word, p) ==
    \E i \in 0..(Len(p) - Len(word)) :
        \A j \in 1..Len(word) : LowerOf(p[i + j]) = word[j]

\* the fields of the keywords that occur in the prompt, in the fixed order
Expected(p) ==
    LET occurring == SelectSeq(<<1, 2, 3, 4>>, LAMBDA k : Occurs(Keywords[k], p))
    IN  [i \in 1..Len(occurring) |-> KeywordFields[occurring[i]]]

\* C29: in useFormGenerator the effect of an empty prompt changes nothing
\* (the list stays what the last non-empty prompt produced, initially the
\* empty list), and the effect of a non-empty prompt replaces the list
\* with exactly the fields whose keyword (name, email, age, date) occurs in
\* the prompt case-insensitively, in that order.
C29_EmptyPromptKeepsList ==
    /\ [][IF effectPending /\ ~effectPending'
           THEN hookFields' = IF hookPrompt = <<>> THEN hookFields
                              ELSE Expected(hookPrompt)
           ELSE hookFields' = hookFields]_vars
    /\ []((~effectPending /\ hookPrompt # <<>>) => hookFields = Expected(hookPrompt))

C29_Witness ==
    /\ ~effectPending
    /\ hookPrompt = <<>>
    /\ hookFields = <<HookField("age", "number", "Age"), HookField("date", "date", "Date")>>

=============================================================================
